---- MODULE Spec2Model ----
(***************************************************************************)
(* A model of the Kinesis Video Streams put-media sample:                   *)
(*   src/kvs_client.py  ChunkGenerator and KvsClient                        *)
(*   src/main.py        the script variant of the same request              *)
(*                                                                         *)
(* Text is modelled as a sequence of symbols.  A symbol is a one-element    *)
(* piece of text that the code never looks inside: a delimiter such as      *)
(* ".", "/", ":", ";", "\n", the scheme prefix "https://", or a run of      *)
(* characters holding no delimiter ("kinesisvideo", "keep-alive").          *)
(* Python's None is the record None; a str value s is Str(s).               *)
(***************************************************************************)
EXTENDS Integers, Sequences, FiniteSets, TLC

\* ------------------------------------------------------------------ bounds
\* longest media source (bytes) drawn for the ChunkGenerator
MaxData == 4
\* largest chunk size drawn for the ChunkGenerator
MaxChunk == 3
\* number of __next__ calls followed on one ChunkGenerator
MaxReads == 6
\* most lines in a response body drawn for put_media
MaxLines == 3

\* --------------------------------------------------------- program constants
\* chunk_size default of ChunkGenerator.__init__ and put_media, and the
\* literal chunk size of gen_request_parameters.__next__
DefaultChunkSize == 16000

VARIABLES
    \* ---- the body producer (ChunkGenerator / gen_request_parameters)
    cg_variant,     \* "kvs_client" (ChunkGenerator) or "main" (gen_request_parameters)
    cg_chunk_size,  \* self._chunk_size
    cg_data,        \* self._data
    cg_pointer,     \* self._pointer
    cg_size,        \* self._size
    cg_yielded,     \* the chunks __next__ has returned, in order (observation)
    cg_stops,       \* how many times __next__ has raised StopIteration (observation)
    cg_after_stop,  \* TRUE once a chunk was returned after a StopIteration (observation)
    \* ---- host and region extraction applied to one endpoint
    ep_endpoint,    \* the endpoint text handed to the four functions
    ep_results,     \* what each function did with it: a Return, a Raise, or NotCalled
    \* ---- header construction applied to one set of request values
    hd_in,          \* host, region, stream_name, t (utcnow), start_timestamp
    hd_kvs,         \* what KvsClient._generate_headers built from hd_in
    hd_main,        \* what the script main.py built from hd_in
    \* ---- one KvsClient and the service it talks to
    stream_exists,          \* the service: the stream input_params.stream_name exists
    srv_response,           \* the service: the response text it answers putMedia with
    data_endpoint,          \* self._data_endpoint
    data_endpoint_host,     \* self._data_endpoint_host
    data_endpoint_region,   \* self._data_endpoint_region
    put_media_endpoint,     \* self._put_media_endpoint
    ever_initialised,       \* some initialise() on this client has returned (observation)
    last                    \* the last call on this client and how it went (observation)

cg_vars == <<cg_variant, cg_chunk_size, cg_data, cg_pointer, cg_size,
             cg_yielded, cg_stops, cg_after_stop>>

ep_vars == <<ep_endpoint, ep_results>>

hd_vars == <<hd_in, hd_kvs, hd_main>>

self_vars == <<data_endpoint, data_endpoint_host, data_endpoint_region, put_media_endpoint>>

kv_vars == <<stream_exists, srv_response, self_vars, ever_initialised, last>>

vars == <<cg_vars, ep_vars, hd_vars, kv_vars>>

\* ------------------------------------------------------------------ helpers
Min(a, b) == IF a <= b THEN a ELSE b

RECURSIVE Concat(_)
\* b"".join(chunks)
Concat(chunks) ==
    IF chunks = <<>> THEN <<>> ELSE Head(chunks) \o Concat(Tail(chunks))

RECURSIVE SeqsUpTo(_, _)
\* all sequences over S of length at most n
SeqsUpTo(S, n) ==
    IF n = 0 THEN {<<>>}
    ELSE LET shorter == SeqsUpTo(S, n - 1)
         IN  shorter \cup {Append(s, x) : s \in {t \in shorter : Len(t) = n - 1}, x \in S}

\* Python's normalisation of one slice bound against a sequence of length n
PyIndex(i, n) ==
    IF i < 0 THEN (IF i + n < 0 THEN 0 ELSE i + n)
    ELSE IF i > n THEN n ELSE i

\* Python's s[lo:hi]
PySlice(s, lo, hi) ==
    LET a == PyIndex(lo, Len(s))
        b == PyIndex(hi, Len(s))
    IN  IF a >= b THEN <<>> ELSE SubSeq(s, a + 1, b)


\* ------------------------------------------------------------ text values
\* Python's None, and a str holding the symbols s
None == [isNone |-> TRUE, s |-> <<>>]
Str(s) == [isNone |-> FALSE, s |-> s]

\* how a call ended: it returned a value, or raised an exception
Return(v) == [kind |-> "return", value |-> v, exc |-> "-"]
Raise(e) == [kind |-> "raise", value |-> None, exc |-> e]
NotCalled == [kind |-> "none", value |-> None, exc |-> "-"]

\* s.startswith(prefix)
StartsWith(s, prefix) ==
    /\ Len(s) >= Len(prefix)
    /\ SubSeq(s, 1, Len(prefix)) = prefix

RECURSIVE Split(_, _)
\* s.split(sep) for a one-symbol separator: the pieces between separators
Split(s, sep) ==
    IF \A i \in 1 .. Len(s) : s[i] # sep THEN <<s>>
    ELSE LET i == CHOOSE j \in 1 .. Len(s) :
                     s[j] = sep /\ \A h \in 1 .. j - 1 : s[h] # sep
         IN  <<SubSeq(s, 1, i - 1)>> \o Split(SubSeq(s, i + 1, Len(s)), sep)

RECURSIVE Join(_, _)
\* sep.join(pieces)
Join(pieces, sep) ==
    IF pieces = <<>> THEN <<>>
    ELSE IF Len(pieces) = 1 THEN pieces[1]
    ELSE pieces[1] \o sep \o Join(Tail(pieces), sep)


\* ---------------------------------------------- host and region extraction
\* "https://"
HTTPS == <<"https", ":", "/", "/">>

\* what an endpoint text can begin with
Schemes == {HTTPS, <<"http", ":", "/", "/">>, <<"https", ":", "/">>, <<>>}

\* "s-ca658586.kinesisvideo.ap-southeast-2.amazonaws.com", the sample of the
\* docstrings, the same host in another region, a host of two labels, no host
SampleHost ==
    <<"s-ca658586", ".", "kinesisvideo", ".", "ap-southeast-2", ".", "amazonaws", ".", "com">>
OtherHost ==
    <<"s-1f2e3d4c", ".", "kinesisvideo", ".", "us-east-1", ".", "amazonaws", ".", "com">>
Hosts == {SampleHost, OtherHost, <<"localhost", ".", "localdomain">>, <<>>}

\* what follows the host: nothing, a path, a query, a port
Tails == {<<>>, <<"/", "putMedia">>, <<"?", "x", "=", "1">>, <<":", "443">>}

Endpoints == {scheme \o host \o tail : scheme \in Schemes, host \in Hosts, tail \in Tails}

\* KvsClient.get_host_from_endpoint
KvsClient_get_host_from_endpoint(endpoint) ==
    IF ~StartsWith(endpoint, HTTPS) THEN Raise("ValueError")
    ELSE Return(Str(PySlice(endpoint, Len(HTTPS), Len(endpoint))))

\* KvsClient._get_region_from_endpoint
KvsClient_get_region_from_endpoint(endpoint) ==
    IF ~StartsWith(endpoint, HTTPS) THEN Raise("ValueError")
    ELSE LET labels == Split(PySlice(endpoint, Len(HTTPS), Len(endpoint)), ".")
         IN  IF Len(labels) < 3 THEN Raise("IndexError") ELSE Return(Str(labels[3]))

\* main.py get_host_from_endpoint
main_get_host_from_endpoint(endpoint) ==
    IF ~StartsWith(endpoint, HTTPS) THEN Return(None)
    ELSE Return(Str(PySlice(endpoint, Len(HTTPS), Len(endpoint))))

\* main.py get_region_from_endpoint
main_get_region_from_endpoint(endpoint) ==
    IF ~StartsWith(endpoint, HTTPS) THEN Return(None)
    ELSE LET labels == Split(PySlice(endpoint, Len(HTTPS), Len(endpoint)), ".")
         IN  IF Len(labels) < 3 THEN Raise("IndexError") ELSE Return(Str(labels[3]))

Extractors == {"KvsClient.get_host_from_endpoint", "KvsClient._get_region_from_endpoint",
               "main.get_host_from_endpoint", "main.get_region_from_endpoint"}

InitEndpoint ==
    /\ ep_endpoint \in Endpoints
    /\ ep_results = [f \in Extractors |-> NotCalled]

\* no endpoint under test
IdleEndpoint ==
    /\ ep_endpoint = <<>>
    /\ ep_results = [f \in Extractors |-> NotCalled]

\* a call of KvsClient.get_host_from_endpoint(ep_endpoint)
CallKvsGetHost ==
    /\ ep_results' = [ep_results EXCEPT !["KvsClient.get_host_from_endpoint"] =
                          KvsClient_get_host_from_endpoint(ep_endpoint)]
    /\ UNCHANGED <<ep_endpoint, cg_vars, hd_vars, kv_vars>>

\* a call of KvsClient._get_region_from_endpoint(ep_endpoint)
CallKvsGetRegion ==
    /\ ep_results' = [ep_results EXCEPT !["KvsClient._get_region_from_endpoint"] =
                          KvsClient_get_region_from_endpoint(ep_endpoint)]
    /\ UNCHANGED <<ep_endpoint, cg_vars, hd_vars, kv_vars>>

\* a call of main.py's get_host_from_endpoint(ep_endpoint)
CallMainGetHost ==
    /\ ep_results' = [ep_results EXCEPT !["main.get_host_from_endpoint"] =
                          main_get_host_from_endpoint(ep_endpoint)]
    /\ UNCHANGED <<ep_endpoint, cg_vars, hd_vars, kv_vars>>

\* a call of main.py's get_region_from_endpoint(ep_endpoint)
CallMainGetRegion ==
    /\ ep_results' = [ep_results EXCEPT !["main.get_region_from_endpoint"] =
                          main_get_region_from_endpoint(ep_endpoint)]
    /\ UNCHANGED <<ep_endpoint, cg_vars, hd_vars, kv_vars>>

NextEndpoint ==
    \/ CallKvsGetHost
    \/ CallKvsGetRegion
    \/ CallMainGetHost
    \/ CallMainGetRegion



\* ------------------------------------------------------ header construction
\* what header construction ended with: the canonical header block, the
\* signed-header list and the credential scope, or an exception
HdReturn(ch, sh, cs) ==
    [kind |-> "return", exc |-> "-", canonical_headers |-> ch, signed_headers |-> sh,
     credential_scope |-> cs]
HdRaise(e) ==
    [kind |-> "raise", exc |-> e, canonical_headers |-> <<>>, signed_headers |-> <<>>,
     credential_scope |-> <<>>]
HdNotBuilt ==
    [kind |-> "none", exc |-> "-", canonical_headers |-> <<>>, signed_headers |-> <<>>,
     credential_scope |-> <<>>]

\* f"{v}": None is formatted as the text None
Format(v) == IF v.isNone THEN <<"None">> ELSE v.s

\* "AWS-SDK-KVS/2.0.2 GCC/7.4.0 Linux/4.15.0-46-generic x86_64"
UserAgent ==
    <<"AWS-SDK-KVS", "/", "2", ".", "0", ".", "2", " ", "GCC", "/", "7", ".", "4", ".", "0",
      " ", "Linux", "/", "4", ".", "15", ".", "0-46-generic", " ", "x86_64">>

\* _kinesis_video_service_name
kinesis_video_service_name == <<"kinesisvideo">>

\* t.strftime("%Y%m%dT%H%M%SZ") and t.strftime("%Y%m%d")
AmzDate(t) == <<t.date, "T", t.time, "Z">>
DateStamp(t) == <<t.date>>

\* the list joined into canonical_headers
canonical_header_lines(host, amz_date, start_timestamp, stream_name) ==
    << <<"connection", ":", "keep-alive">>,
       <<"content-type", ":", "application", "/", "json">>,
       <<"host", ":">> \o host,
       <<"transfer-encoding", ":", "chunked">>,
       <<"user-agent", ":">> \o UserAgent,
       <<"x-amz-date", ":">> \o amz_date,
       <<"x-amzn-fragment-acknowledgment-required", ":", "1">>,
       <<"x-amzn-fragment-timecode-type", ":", "ABSOLUTE">>,
       <<"x-amzn-producer-start-timestamp", ":">> \o start_timestamp,
       <<"x-amzn-stream-name", ":">> \o stream_name >>

\* canonical_headers of _generate_headers: "\n".join([...]) + "\n"
canonical_headers(host, amz_date, start_timestamp, stream_name) ==
    Join(canonical_header_lines(host, amz_date, start_timestamp, stream_name), <<"\n">>)
        \o <<"\n">>

\* a mutant of signed_headers: "host" left out of the list
signed_headers_without_host ==
    Join(<< <<"connection">>, <<"content-type">>, <<"transfer-encoding">>,
            <<"user-agent">>, <<"x-amz-date">>,
            <<"x-amzn-fragment-acknowledgment-required">>,
            <<"x-amzn-fragment-timecode-type">>,
            <<"x-amzn-producer-start-timestamp">>, <<"x-amzn-stream-name">> >>, <<";">>)

\* signed_headers of _generate_headers: ";".join([...])
signed_headers ==
    Join(<< <<"connection">>, <<"content-type">>, <<"host">>, <<"transfer-encoding">>,
            <<"user-agent">>, <<"x-amz-date">>,
            <<"x-amzn-fragment-acknowledgment-required">>,
            <<"x-amzn-fragment-timecode-type">>,
            <<"x-amzn-producer-start-timestamp">>, <<"x-amzn-stream-name">> >>, <<";">>)

\* credential_scope: "/".join([date_stamp, region, service, "aws4_request"])
credential_scope(date_stamp, region) ==
    Join(<<date_stamp, region, kinesis_video_service_name, <<"aws4_request">> >>, <<"/">>)

\* a mutant of KvsClient_generate_headers: the region is formatted into the
\* credential scope as the host is into the header block, None as the text None
KvsClient_generate_headers_formats_region(host, region, stream_name, t, start_timestamp) ==
    HdReturn(canonical_headers(Format(host), AmzDate(t), start_timestamp, stream_name),
             signed_headers,
             credential_scope(DateStamp(t), Format(region)))

\* KvsClient._generate_headers, as far as the signature input: the join of
\* credential_scope raises TypeError on a region that is None; the f-strings of
\* the header block format a None host as the text None.  The SHA-256 and HMAC
\* values computed from these texts are not modelled.
KvsClient_generate_headers(host, region, stream_name, t, start_timestamp) ==
    IF region.isNone THEN HdRaise("TypeError")
    ELSE HdReturn(canonical_headers(Format(host), AmzDate(t), start_timestamp, stream_name),
                  signed_headers,
                  credential_scope(DateStamp(t), region.s))

\* canonical_headers of main.py: ten `canonical_headers += "name:" + value + "\n"`
main_canonical_headers(host, amz_date, start_timestamp, stream_name) ==
    <<"connection", ":", "keep-alive", "\n">>
        \o <<"content-type", ":", "application", "/", "json", "\n">>
        \o <<"host", ":">> \o host \o <<"\n">>
        \o <<"transfer-encoding", ":", "chunked", "\n">>
        \o <<"user-agent", ":">> \o UserAgent \o <<"\n">>
        \o <<"x-amz-date", ":">> \o amz_date \o <<"\n">>
        \o <<"x-amzn-fragment-acknowledgment-required", ":", "1", "\n">>
        \o <<"x-amzn-fragment-timecode-type", ":", "ABSOLUTE", "\n">>
        \o <<"x-amzn-producer-start-timestamp", ":">> \o start_timestamp \o <<"\n">>
        \o <<"x-amzn-stream-name", ":">> \o stream_name \o <<"\n">>

\* signed_headers of main.py: three string literals concatenated
main_signed_headers ==
    <<"connection", ";", "content-type", ";", "host", ";", "transfer-encoding", ";",
      "user-agent", ";">>
        \o <<"x-amz-date", ";", "x-amzn-fragment-acknowledgment-required", ";">>
        \o <<"x-amzn-fragment-timecode-type", ";", "x-amzn-producer-start-timestamp", ";",
             "x-amzn-stream-name">>

\* main.py from `t = datetime.datetime.utcnow()` to credential_scope:
\* `"host:" + host` and `date_stamp + "/" + region` raise TypeError on None
main_build_headers(host, region, stream_name, t, start_timestamp) ==
    IF host.isNone \/ region.isNone THEN HdRaise("TypeError")
    ELSE HdReturn(main_canonical_headers(host.s, AmzDate(t), start_timestamp, stream_name),
                  main_signed_headers,
                  DateStamp(t) \o <<"/">> \o region.s \o <<"/">>
                      \o kinesis_video_service_name \o <<"/", "aws4_request">>)

\* the request values drawn for header construction; the values hold no line
\* break (a stream name is [a-zA-Z0-9_.-]+, a host comes from a data endpoint)
HdHosts == {None, Str(SampleHost), Str(SampleHost \o <<":", "443">>)}
HdRegions == {None, Str(<<"ap-southeast-2">>)}
StreamNames == {<<"my-stream">>, <<"cam", ".", "1">>, <<"a", ":", "b">>}
Times == {[date |-> "20240101", time |-> "000000"], [date |-> "20261105", time |-> "235959"]}
Timestamps == {<<"1704067200", ".", "0">>, <<"1704067200", ".", "123456">>}

InitHeaders ==
    /\ hd_in \in [host : HdHosts, region : HdRegions, stream_name : StreamNames,
                  t : Times, start_timestamp : Timestamps]
    /\ hd_kvs = HdNotBuilt
    /\ hd_main = HdNotBuilt

\* no header construction under test
IdleHeaders ==
    /\ hd_in = [host |-> None, region |-> None, stream_name |-> <<"my-stream">>,
                t |-> [date |-> "20240101", time |-> "000000"],
                start_timestamp |-> <<"1704067200", ".", "0">>]
    /\ hd_kvs = HdNotBuilt
    /\ hd_main = HdNotBuilt

\* a call of KvsClient._generate_headers on a client holding hd_in
CallGenerateHeaders ==
    /\ hd_kvs' = KvsClient_generate_headers(hd_in.host, hd_in.region, hd_in.stream_name,
                                            hd_in.t, hd_in.start_timestamp)
    /\ UNCHANGED <<hd_in, hd_main, cg_vars, ep_vars, kv_vars>>

\* a run of main.py's header construction on hd_in
RunMainHeaders ==
    /\ hd_main' = main_build_headers(hd_in.host, hd_in.region, hd_in.stream_name,
                                     hd_in.t, hd_in.start_timestamp)
    /\ UNCHANGED <<hd_in, hd_kvs, cg_vars, ep_vars, kv_vars>>

NextHeaders ==
    \/ CallGenerateHeaders
    \/ RunMainHeaders

\* ------------------------------------------------------- ChunkGenerator
Bytes == {0, 1}

\* the chunk sizes a caller can pass: chunk_size is an unvalidated int
ChunkSizes == (-1) .. MaxChunk

\* a 35,000-byte media source
ExampleSource == [i \in 1 .. 35000 |-> i % 2]

\* ChunkGenerator.__init__ / gen_request_parameters.__init__
InitChunk ==
    /\ \/ /\ cg_variant = "kvs_client"
          /\ cg_data \in SeqsUpTo(Bytes, MaxData)
          /\ cg_chunk_size \in ChunkSizes
       \/ /\ cg_variant \in {"kvs_client", "main"}
          /\ cg_data \in SeqsUpTo(Bytes, MaxData) \cup {ExampleSource}
          /\ cg_chunk_size = DefaultChunkSize
    /\ cg_pointer = 0
    /\ cg_size = Len(cg_data)
    /\ cg_yielded = <<>>
    /\ cg_stops = 0
    /\ cg_after_stop = FALSE

\* no body producer constructed
IdleChunk ==
    /\ cg_variant = "kvs_client"
    /\ cg_chunk_size = DefaultChunkSize
    /\ cg_data = <<>>
    /\ cg_pointer = 0
    /\ cg_size = 0
    /\ cg_yielded = <<>>
    /\ cg_stops = 0
    /\ cg_after_stop = FALSE

\* a mutant of Exhausted: the off-by-one test `self._pointer > self._size`
Exhausted_off_by_one(pointer, size) == pointer > size

\* `if self._pointer >= self._size: raise StopIteration`
Exhausted(pointer, size) == pointer >= size

\* `chunk_size = min(self._chunk_size, self._size - self._pointer)`; in main.py
\* `left = size - pointer; chunksz = 16000; if left < 16000: chunksz = left`
NextChunkSize(configured, pointer, size) == Min(configured, size - pointer)

\* ChunkGenerator.__next__ / gen_request_parameters.__next__
Next_ ==
    /\ Len(cg_yielded) + cg_stops < MaxReads
    /\ IF Exhausted(cg_pointer, cg_size)
       THEN /\ cg_stops' = cg_stops + 1
            /\ UNCHANGED <<cg_pointer, cg_yielded, cg_after_stop>>
       ELSE LET chunk_size == NextChunkSize(cg_chunk_size, cg_pointer, cg_size)
                result == PySlice(cg_data, cg_pointer, cg_pointer + chunk_size)
            IN  /\ cg_pointer' = cg_pointer + chunk_size
                /\ cg_yielded' = Append(cg_yielded, result)
                /\ cg_after_stop' = (cg_after_stop \/ cg_stops > 0)
                /\ UNCHANGED cg_stops
    /\ UNCHANGED <<cg_variant, cg_chunk_size, cg_data, cg_size>>
    /\ UNCHANGED <<ep_vars, hd_vars, kv_vars>>

NextChunk == Next_


\* ------------------------------------------------------------- KvsClient
\* input_params.stream_name, and the instant and start timestamp taken by
\* _generate_headers, of the client followed here
TheStreamName == <<"my-stream">>
TheTime == [date |-> "20240101", time |-> "000000"]
TheStartTimestamp == <<"1704067200", ".", "0">>

\* the file at input_params.video_file_path, when it exists
MediaFile == <<0, 1, 1>>

\* the chunk sizes put_media is called with here: a small one and the default.
\* A chunk size below 1 never ends the upload (claim C2) and is not drawn.
PutChunkSizes == {2, DefaultChunkSize}

\* how create_stream can answer: the stream was created; it exists already
\* (a ClientError with code ResourceInUseException); another ClientError; an
\* exception that is no ClientError
CreateAnswers ==
    {"created", "ResourceInUseException", "AccessDeniedException", "EndpointConnectionError"}

\* the data endpoints get_data_endpoint can return: two of the documented form,
\* one that is not https, one whose host has two labels
SampleEndpoint == HTTPS \o SampleHost
OtherEndpoint == HTTPS \o OtherHost
ClientEndpoints ==
    {SampleEndpoint, OtherEndpoint, <<"http", ":", "/", "/">> \o SampleHost,
     HTTPS \o <<"localhost", ".", "localdomain">>}

\* how get_data_endpoint can answer: an endpoint, or a ClientError
ResolveAnswers == {Raise("ClientError")} \cup {Return(Str(e)) : e \in ClientEndpoints}

\* the lines a response body is made of: two ack records, a record cut short,
\* a bare brace, noise, an empty line, a record behind a blank
AckLine1 == <<"{", "\"FragmentNumber\":\"1\"", "}">>
AckLine2 == <<"{", "\"FragmentNumber\":\"2\"", "}">>
ResponseLines ==
    {AckLine1, AckLine2, <<"{", "\"FragmentNumber\":">>, <<"noise">>, <<"not-json">>,
     <<>>, <<" ">> \o AckLine1}

\* the response texts of up to n lines: the lines joined by line breaks
ResponseBodies(n) == {Join(ls, <<"\n">>) : ls \in SeqsUpTo(ResponseLines, n)}

\* '{"FragmentNumber":"1"}\nnoise\n{"FragmentNumber":"2"}\n'
ExampleResponse == AckLine1 \o <<"\n", "noise", "\n">> \o AckLine2 \o <<"\n">>

\* json.loads(line) on a line that starts with "{": the object, or JSONDecodeError
json_loads(line) ==
    IF line = AckLine1 THEN [ok |-> TRUE, value |-> [FragmentNumber |-> "1"]]
    ELSE IF line = AckLine2 THEN [ok |-> TRUE, value |-> [FragmentNumber |-> "2"]]
    ELSE [ok |-> FALSE, value |-> [FragmentNumber |-> "-"]]

\* what put_media hands to its caller: the list it returns, or an exception
PmReturn(result) == [kind |-> "return", exc |-> "-", result |-> result]
PmRaise(e) == [kind |-> "raise", exc |-> e, result |-> <<>>]

\* a mutant of line_is_record: every non-empty line is parsed
line_is_record_nonempty(line) == line # <<>>

\* `if line.startswith("{")`
line_is_record(line) == StartsWith(line, <<"{">>)

RECURSIVE parse_lines_keep_partial(_, _)
\* a mutant of parse_lines: a line that does not parse ends the loop and the
\* records read so far are returned
parse_lines_keep_partial(lines, result) ==
    IF lines = <<>> THEN PmReturn(result)
    ELSE IF line_is_record(Head(lines))
         THEN LET data == json_loads(Head(lines))
              IN  IF data.ok
                  THEN parse_lines_keep_partial(Tail(lines), Append(result, data.value))
                  ELSE PmReturn(result)
         ELSE parse_lines_keep_partial(Tail(lines), result)

RECURSIVE parse_lines(_, _)
\* the loop of put_media over response.text.split("\n"), from `result` on
parse_lines(lines, result) ==
    IF lines = <<>> THEN PmReturn(result)
    ELSE IF line_is_record(Head(lines))
         THEN LET data == json_loads(Head(lines))
              IN  IF data.ok
                  THEN parse_lines(Tail(lines), Append(result, data.value))
                  ELSE PmRaise("JSONDecodeError")
         ELSE parse_lines(Tail(lines), result)

RECURSIVE all_chunks(_, _, _)
\* the chunks requests.post takes from ChunkGenerator until StopIteration
all_chunks(data, chunk_size, pointer) ==
    IF Exhausted(pointer, Len(data)) THEN <<>>
    ELSE LET n == NextChunkSize(chunk_size, pointer, Len(data))
         IN  <<PySlice(data, pointer, pointer + n)>> \o all_chunks(data, chunk_size, pointer + n)

\* the observation of one call
NoCall ==
    [op |-> "none", create |-> "-", resolve_called |-> FALSE, resolved |-> None,
     kind |-> "-", exc |-> "-", was_initialised |-> FALSE, request_sent |-> FALSE,
     handle |-> "none", transport |-> "-", uploaded |-> <<>>, result |-> <<>>]

\* a mutant of create_stream_failed: "already exists" is treated as a failure
create_stream_failed_strict(create) == create # "created"

\* initialise(): the exception of create_stream is raised again unless it is a
\* ClientError with code ResourceInUseException
create_stream_failed(create) == create \notin {"created", "ResourceInUseException"}

\* KvsClient.initialise() on a client holding `self`, create_stream answering
\* `create` and get_data_endpoint answering `resolve`: the fields it leaves and
\* how it ends.  Each field is assigned as soon as its value is computed.
KvsClient_initialise(self, create, resolve) ==
    IF create_stream_failed(create)
    THEN [self |-> self, kind |-> "raise", exc |-> create, resolve_called |-> FALSE]
    ELSE IF resolve.kind = "raise"
    THEN [self |-> self, kind |-> "raise", exc |-> resolve.exc, resolve_called |-> TRUE]
    ELSE LET endpoint == resolve.value.s
             s1 == [self EXCEPT !.data_endpoint = Str(endpoint)]
             host == KvsClient_get_host_from_endpoint(endpoint)
             s2 == [s1 EXCEPT !.data_endpoint_host = host.value]
             region == KvsClient_get_region_from_endpoint(endpoint)
             s3 == [s2 EXCEPT !.data_endpoint_region = region.value]
             s4 == [s3 EXCEPT !.put_media_endpoint = Str(endpoint \o <<"/", "putMedia">>)]
         IN  IF host.kind = "raise"
             THEN [self |-> s1, kind |-> "raise", exc |-> host.exc, resolve_called |-> TRUE]
             ELSE IF region.kind = "raise"
             THEN [self |-> s2, kind |-> "raise", exc |-> region.exc, resolve_called |-> TRUE]
             ELSE [self |-> s4, kind |-> "return", exc |-> "-", resolve_called |-> TRUE]

\* the instance attributes of the client, the class-level None until assigned
Self ==
    [data_endpoint |-> data_endpoint, data_endpoint_host |-> data_endpoint_host,
     data_endpoint_region |-> data_endpoint_region, put_media_endpoint |-> put_media_endpoint]

\* KvsClient.__init__: the endpoint attributes are the class-level None
InitClient ==
    /\ stream_exists \in BOOLEAN
    /\ data_endpoint = None
    /\ data_endpoint_host = None
    /\ data_endpoint_region = None
    /\ put_media_endpoint = None
    /\ ever_initialised = FALSE
    /\ last = NoCall

\* no client under test
IdleClient ==
    /\ stream_exists = FALSE
    /\ srv_response = <<>>
    /\ data_endpoint = None
    /\ data_endpoint_host = None
    /\ data_endpoint_region = None
    /\ put_media_endpoint = None
    /\ ever_initialised = FALSE
    /\ last = NoCall

\* a call of initialise()
Initialise ==
    \E create \in CreateAnswers, resolve \in ResolveAnswers :
        /\ create = "created" => ~stream_exists
        /\ create = "ResourceInUseException" => stream_exists
        /\ LET r == KvsClient_initialise(Self, create, resolve)
           IN  /\ data_endpoint' = r.self.data_endpoint
               /\ data_endpoint_host' = r.self.data_endpoint_host
               /\ data_endpoint_region' = r.self.data_endpoint_region
               /\ put_media_endpoint' = r.self.put_media_endpoint
               /\ ever_initialised' = (ever_initialised \/ r.kind = "return")
               /\ last' = [NoCall EXCEPT !.op = "initialise", !.create = create,
                                         !.resolve_called = r.resolve_called,
                                         !.resolved = IF r.resolve_called
                                                      THEN resolve.value ELSE None,
                                         !.kind = r.kind, !.exc = r.exc,
                                         !.was_initialised = ever_initialised]
        /\ stream_exists' = (stream_exists \/ create = "created")
        /\ UNCHANGED <<srv_response, cg_vars, ep_vars, hd_vars>>

\* KvsClient.put_media(chunk_size) on a client holding `self`.  file_exists:
\* open(video_file_path) finds the file.  finalised: the file object that
\* ChunkGenerator.__init__ opens and never closes has been closed by the
\* runtime's finaliser by the time the call ends (reference counting does so at
\* once; a tracing collector at a time of its choosing).  transport: what
\* requests.post ends with.  response: the response text.
KvsClient_put_media(self, chunk_size, file_exists, finalised, transport, response) ==
    LET headers == KvsClient_generate_headers(self.data_endpoint_host,
                       self.data_endpoint_region, TheStreamName, TheTime, TheStartTimestamp)
        opened == [NoCall EXCEPT !.op = "put_media",
                                 !.handle = IF finalised THEN "closed" ELSE "open"]
    IN  IF headers.kind = "raise"
        THEN [NoCall EXCEPT !.op = "put_media", !.kind = "raise", !.exc = headers.exc]
        ELSE IF ~file_exists
        THEN [NoCall EXCEPT !.op = "put_media", !.kind = "raise",
                            !.exc = "FileNotFoundError"]
        ELSE IF transport # "response"
        THEN [opened EXCEPT !.request_sent = TRUE, !.transport = transport,
                            !.kind = "raise", !.exc = transport]
        ELSE LET parsed == parse_lines(Split(response, "\n"), <<>>)
             IN  [opened EXCEPT !.request_sent = TRUE, !.transport = transport,
                                !.uploaded = all_chunks(MediaFile, chunk_size, 0),
                                !.kind = parsed.kind, !.exc = parsed.exc,
                                !.result = parsed.result]

\* what requests.post can end with
Transports == {"response", "ConnectionError", "Timeout"}

\* a call of put_media(chunk_size)
PutMedia ==
    \E chunk_size \in PutChunkSizes, file_exists \in BOOLEAN, finalised \in BOOLEAN,
       transport \in Transports :
        /\ last' = [KvsClient_put_media(Self, chunk_size, file_exists, finalised,
                                        transport, srv_response)
                        EXCEPT !.was_initialised = ever_initialised]
        /\ UNCHANGED <<stream_exists, srv_response, self_vars, ever_initialised>>
        /\ UNCHANGED <<cg_vars, ep_vars, hd_vars>>

NextClient ==
    \/ Initialise
    \/ PutMedia

\* the service's response in the runs that follow a client through its calls
InitService == srv_response \in {<<>>, ExampleResponse, AckLine1 \o <<"\n">> \o <<"{">>}

\* a client on which initialise() has returned for SampleEndpoint, about to
\* call put_media against a service answering any of the response bodies
InitInitialised ==
    /\ stream_exists = TRUE
    /\ srv_response \in ResponseBodies(MaxLines) \cup {ExampleResponse}
    /\ data_endpoint = Str(SampleEndpoint)
    /\ data_endpoint_host = Str(SampleHost)
    /\ data_endpoint_region = Str(<<"ap-southeast-2">>)
    /\ put_media_endpoint = Str(SampleEndpoint \o <<"/", "putMedia">>)
    /\ ever_initialised = TRUE
    /\ last = [NoCall EXCEPT !.op = "initialise", !.create = "ResourceInUseException",
                             !.resolve_called = TRUE, !.resolved = Str(SampleEndpoint),
                             !.kind = "return"]

\* ---------------------------------------------------------- specifications
\* Each specification follows one part of the program; the variables of the
\* other parts keep their idle values.

InitChunkOnly == InitChunk /\ IdleEndpoint /\ IdleHeaders /\ IdleClient

\* one body producer, read until it is exhausted
SpecChunk == InitChunkOnly /\ [][NextChunk]_vars

InitEndpointOnly == InitEndpoint /\ IdleChunk /\ IdleHeaders /\ IdleClient

\* the extraction functions applied to one endpoint
SpecEndpoint == InitEndpointOnly /\ [][NextEndpoint]_vars

InitHeadersOnly == InitHeaders /\ IdleChunk /\ IdleEndpoint /\ IdleClient

\* header construction applied to one set of request values
SpecHeaders == InitHeadersOnly /\ [][NextHeaders]_vars

Init == InitClient /\ InitService /\ IdleChunk /\ IdleEndpoint /\ IdleHeaders

Next == NextClient

\* one client from construction through any calls of initialise and put_media
Spec == Init /\ [][Next]_vars

InitPutMedia == InitInitialised /\ IdleChunk /\ IdleEndpoint /\ IdleHeaders

\* put_media on an initialised client, over all response bodies
SpecPutMedia == InitPutMedia /\ [][PutMedia]_vars

\* ------------------------------------------------------ claims C1 and C2
CeilDiv(n, c) == (n + c - 1) \div c

\* the lengths of the chunks returned so far
YieldedSizes == [i \in 1 .. Len(cg_yielded) |-> Len(cg_yielded[i])]

\* C1: for a source of n bytes and a positive chunk size c the reads return
\* exactly ceil(n/c) chunks, each of length c except the last, of length
\* n - c*(ceil(n/c) - 1); the chunks returned so far concatenate to a prefix of
\* the source and, once all are returned, to the source; the read after the
\* last chunk signals exhaustion and no earlier read does (35000 bytes in
\* chunks of 16000: sizes 16000, 16000, 3000, then exhaustion).
C1_ChunkSequence ==
    cg_chunk_size > 0 =>
        LET n == cg_size
            c == cg_chunk_size
            k == CeilDiv(n, c)
            m == Len(cg_yielded)
        IN  /\ m <= k
            /\ \A i \in 1 .. m :
                   Len(cg_yielded[i]) = IF i < k THEN c ELSE n - c * (k - 1)
            /\ Concat(cg_yielded) = SubSeq(cg_data, 1, Min(n, m * c))
            /\ cg_pointer = Min(n, m * c)
            /\ cg_stops > 0 => m = k /\ Concat(cg_yielded) = cg_data
            /\ (n = 35000 /\ c = 16000 /\ cg_stops > 0)
                   => YieldedSizes = <<16000, 16000, 3000>>

\* C1 witness: the 35000-byte source read in chunks of 16000 to exhaustion
C1_Witness ==
    /\ cg_size = 35000
    /\ cg_chunk_size = 16000
    /\ YieldedSizes = <<16000, 16000, 3000>>
    /\ cg_stops > 0

\* C2 as claimed: for every caller-configured chunk size the read pointer stays
\* in 0..size and no chunk is returned once exhaustion has been signalled (the
\* sequence ends and stays ended).
C2_AsClaimed ==
    /\ cg_pointer \in 0 .. cg_size
    /\ ~cg_after_stop

\* ------------------------------------------------------ claims C4 and C5
\* the part of a URL's remainder before the first path or query boundary
RECURSIVE UpToBoundary(_)
UpToBoundary(rest) ==
    IF rest = <<>> \/ Head(rest) \in {"/", "?"} THEN <<>>
    ELSE <<Head(rest)>> \o UpToBoundary(Tail(rest))

\* the host of an https URL as the specification defines it
UrlHost(endpoint) == UpToBoundary(SubSeq(endpoint, Len(HTTPS) + 1, Len(endpoint)))

\* C4 as claimed: on an endpoint that does not start with "https://" every
\* host extraction and every region extraction fails with the precondition
\* error; none returns a value, None included.
C4_AsClaimed ==
    ~StartsWith(ep_endpoint, HTTPS) =>
        \A f \in Extractors :
            ep_results[f] # NotCalled => ep_results[f] = Raise("ValueError")

\* C5 as claimed: on an endpoint that starts with "https://" the resolved host
\* is the text between the scheme separator and the first path or query
\* boundary, and the resolved region is the third dot-delimited label of that
\* host.
C5_AsClaimed ==
    (StartsWith(ep_endpoint, HTTPS) /\ Len(Split(UrlHost(ep_endpoint), ".")) >= 3) =>
        /\ ep_results["KvsClient.get_host_from_endpoint"] # NotCalled =>
               ep_results["KvsClient.get_host_from_endpoint"]
                   = Return(Str(UrlHost(ep_endpoint)))
        /\ ep_results["KvsClient._get_region_from_endpoint"] # NotCalled =>
               ep_results["KvsClient._get_region_from_endpoint"]
                   = Return(Str(Split(UrlHost(ep_endpoint), ".")[3]))

\* ------------------------------------------------------------- claim C3
\* the text of a header line before its first ":"
RECURSIVE BeforeColon(_)
BeforeColon(line) ==
    IF line = <<>> \/ Head(line) = ":" THEN <<>>
    ELSE <<Head(line)>> \o BeforeColon(Tail(line))

\* the header names of a canonical header block, in emission order: one per
\* line, the block's closing line break ending the last line
HeaderNames(block) ==
    LET pieces == Split(block, "\n")
        lines == SubSeq(pieces, 1, Len(pieces) - 1)
    IN  [i \in 1 .. Len(lines) |-> BeforeColon(lines[i])]

TenHeaderNames ==
    << <<"connection">>, <<"content-type">>, <<"host">>, <<"transfer-encoding">>,
       <<"user-agent">>, <<"x-amz-date">>, <<"x-amzn-fragment-acknowledgment-required">>,
       <<"x-amzn-fragment-timecode-type">>, <<"x-amzn-producer-start-timestamp">>,
       <<"x-amzn-stream-name">> >>

SignedMatchesBlock(built) ==
    built.kind = "return" =>
        /\ HeaderNames(built.canonical_headers) = TenHeaderNames
        /\ built.signed_headers = Join(HeaderNames(built.canonical_headers), <<";">>)

\* C3: in every request built by _generate_headers (and by the script), the
\* signed-header list is the header names of the canonical header block, in
\* emission order, joined with ";": the ten names connection .. x-amzn-stream-name.
C3_SignedHeadersMatch ==
    /\ SignedMatchesBlock(hd_kvs)
    /\ SignedMatchesBlock(hd_main)

\* C3 witness: both constructions built a request for a host with a port and a
\* stream name that holds a colon
C3_Witness ==
    /\ hd_kvs.kind = "return"
    /\ hd_main.kind = "return"
    /\ hd_in.host = Str(SampleHost \o <<":", "443">>)
    /\ hd_in.stream_name = <<"a", ":", "b">>

\* ------------------------------------------------------------- claim C6
\* an endpoint of the documented form: https, and a host of three labels or more
WellFormed(e) ==
    /\ StartsWith(e, HTTPS)
    /\ Len(Split(SubSeq(e, Len(HTTPS) + 1, Len(e)), ".")) >= 3

\* C6: initialise() takes "already exists" from stream creation as success and
\* goes on to resolve the endpoint; when the endpoint resolved is of the
\* documented form the call returns and leaves endpoint, host, region and
\* putMedia URL as that endpoint determines them, the same on every call that
\* resolves the same endpoint; any other provisioning error is raised to the
\* caller and that call resolves no endpoint.
C6_AlreadyExistsIsSuccess ==
    last.op = "initialise" =>
        /\ last.create = "ResourceInUseException" => last.resolve_called
        /\ (/\ last.create = "ResourceInUseException"
            /\ ~last.resolved.isNone
            /\ WellFormed(last.resolved.s)) =>
               LET e == last.resolved.s
                   host == SubSeq(e, Len(HTTPS) + 1, Len(e))
               IN  /\ last.kind = "return"
                   /\ data_endpoint = Str(e)
                   /\ data_endpoint_host = Str(host)
                   /\ data_endpoint_region = Str(Split(host, ".")[3])
                   /\ put_media_endpoint = Str(e \o <<"/", "putMedia">>)
        /\ last.create \in {"AccessDeniedException", "EndpointConnectionError"} =>
               /\ last.kind = "raise"
               /\ last.exc = last.create
               /\ ~last.resolve_called

\* C6 witness: initialise() returned once more on a client already initialised,
\* the stream existing and the sample endpoint resolved
C6_Witness ==
    /\ last.op = "initialise"
    /\ last.create = "ResourceInUseException"
    /\ last.kind = "return"
    /\ last.was_initialised
    /\ data_endpoint = Str(SampleEndpoint)
    /\ data_endpoint_region = Str(<<"ap-southeast-2">>)

\* ------------------------------------------------------------- claim C7
\* C7: put_media sends a request only on a client on which some initialise()
\* has returned; on a client on which none has (never called, or every call
\* failed) it raises and sends nothing.
C7_PutMediaNeedsInitialise ==
    last.op = "put_media" =>
        /\ last.request_sent => last.was_initialised
        /\ ~last.was_initialised =>
               /\ last.kind = "raise"
               /\ ~last.request_sent
               /\ last.uploaded = <<>>

\* C7 witness: put_media raised on a client whose only initialise() calls
\* failed, one of them after the endpoint and its host had been stored
C7_Witness ==
    /\ last.op = "put_media"
    /\ ~last.was_initialised
    /\ ~data_endpoint_host.isNone
    /\ last.kind = "raise"
    /\ ~last.request_sent

\* ------------------------------------------------------ claims C8 and C9
\* the lines of a response text whose first character is "{", in order
BraceLines(text) == SelectSeq(Split(text, "\n"), LAMBDA l : l # <<>> /\ l[1] = "{")

\* C8 as claimed: for every response body put_media returns one record per
\* line that begins with "{", in order.
C8_AsClaimed ==
    (last.op = "put_media" /\ last.transport = "response") =>
        /\ last.kind = "return"
        /\ Len(last.result) = Len(BraceLines(srv_response))

\* C8 amended: for every response body in which each line beginning with "{" is
\* valid JSON, put_media returns one record per such line, in the order of the
\* lines, and nothing for any other line; when some line beginning with "{" is
\* not valid JSON the call raises the decoding error.
C8_RecordsPerBraceLine ==
    (last.op = "put_media" /\ last.transport = "response") =>
        LET brace == BraceLines(srv_response)
        IN  IF \A i \in 1 .. Len(brace) : json_loads(brace[i]).ok
            THEN /\ last.kind = "return"
                 /\ last.result = [i \in 1 .. Len(brace) |-> json_loads(brace[i]).value]
            ELSE /\ last.kind = "raise"
                 /\ last.exc = "JSONDecodeError"

\* C8 witness: the two records of the example response, the noise line dropped
C8_Witness ==
    /\ last.op = "put_media"
    /\ srv_response = ExampleResponse
    /\ last.kind = "return"
    /\ last.result = <<[FragmentNumber |-> "1"], [FragmentNumber |-> "2"]>>

\* C9: every put_media call ends in one of two ways: it returns the records
\* of all the "{" lines of the whole response, or it raises and hands the
\* caller no list; it raises when the transport fails and when a "{" line is
\* not valid JSON, also after earlier lines were parsed.
C9_AllOrNothing ==
    last.op = "put_media" =>
        LET brace == BraceLines(srv_response)
        IN  /\ \/ /\ last.kind = "return"
                  /\ last.transport = "response"
                  /\ Len(last.result) = Len(brace)
                  /\ \A i \in 1 .. Len(brace) :
                         /\ json_loads(brace[i]).ok
                         /\ last.result[i] = json_loads(brace[i]).value
               \/ /\ last.kind = "raise"
                  /\ last.result = <<>>
            /\ last.transport \in {"ConnectionError", "Timeout"} => last.kind = "raise"

\* C9 witness: the decoding error of a second "{" line, the first one parsed
C9_Witness ==
    /\ last.op = "put_media"
    /\ last.kind = "raise"
    /\ last.exc = "JSONDecodeError"
    /\ Len(BraceLines(srv_response)) = 2
    /\ json_loads(BraceLines(srv_response)[1]).ok
    /\ last.result = <<>>

\* ------------------------------------------------------------ claim C10
\* C10 as claimed: when a put_media call has ended, however it ended, the
\* media file handle it opened is closed.
C10_AsClaimed ==
    last.op = "put_media" => last.handle # "open"

\* ------------------------------------------------------------ claim C11
\* C11 as claimed: after any sequence of initialise() calls, failed at any
\* step or not, the stored endpoint fields agree: all four are unset, or host
\* and region are the values parsed from the stored endpoint and the putMedia
\* URL is that endpoint followed by "/putMedia".
C11_AsClaimed ==
    \/ /\ data_endpoint = None
       /\ data_endpoint_host = None
       /\ data_endpoint_region = None
       /\ put_media_endpoint = None
    \/ /\ ~data_endpoint.isNone
       /\ StartsWith(data_endpoint.s, HTTPS)
       /\ LET e == data_endpoint.s
              host == SubSeq(e, Len(HTTPS) + 1, Len(e))
          IN  /\ Len(Split(host, ".")) >= 3
              /\ data_endpoint_host = Str(host)
              /\ data_endpoint_region = Str(Split(host, ".")[3])
              /\ put_media_endpoint = Str(e \o <<"/", "putMedia">>)

====
